---- MODULE Spec2Model ----
(***************************************************************************)
(* Traffic through one four-way signalised intersection: the path builder  *)
(* of intersection.js, the Car state machine and the CarManager tick loop. *)
(*                                                                         *)
(* Numbers.  JavaScript Numbers are modelled as fixed-point integers:      *)
(* a coordinate or a length of u units is the integer u * Scale, a speed   *)
(* of v units/s is v * Scale, times are integer milliseconds.  An angle    *)
(* handed to Math.cos / Math.sin by the path builder is an integer number  *)
(* of AngleUnits (pi / 56, so that the 28 steps of a quarter turn are      *)
(* whole units); a heading (this.angle) is the unit vector                 *)
(* [dx, dy] * Unit of its direction, i.e. (cos, sin) of the angle.         *)
(* pathProgress is the exact fraction num / den.                           *)
(***************************************************************************)
EXTENDS Integers, Sequences, FiniteSets, TLC

VARIABLES
    cars,           \* CarManager.cars: sequence of Car records, spawn order
    nextCarId,      \* CarManager.nextCarId
    spawnTimer,     \* CarManager.spawnTimer (ms)
    settings,       \* CarManager.settings: [CAR_SPEED, CAR_SPAWN_RATE]
    lightStates,    \* the light controller's mapping, passed to every update
    now,            \* Date.now() (ms)
    tick,           \* record of the last CarManager call (inputs, events)
    probe           \* path-builder probe: inputs and results of the pure functions

vars == <<cars, nextCarId, spawnTimer, settings, lightStates, now, tick, probe>>

fleetVars == <<cars, nextCarId, spawnTimer, settings, lightStates, now, tick>>

-----------------------------------------------------------------------------
(* Bounds of the model *)

MaxCarId == 2       \* vehicles spawned between two resets
MaxFrames == 11      \* frames (update calls) of a run
\* positions are followed up to Horizon beyond the canvas in SpecLive
Horizon == 300

(* Number representation *)
Scale == 10         \* fixed-point units per coordinate unit
Unit == 1000        \* length of a heading vector

-----------------------------------------------------------------------------
(* constants.js / config.js *)

N == "N"
E == "E"
S == "S"
W == "W"
Dirs == {N, E, S, W}
DIRECTIONS == <<N, E, S, W>>

LEFT == "LEFT"
RIGHT == "RIGHT"
STRAIGHT == "STRAIGHT"
NONE == "NONE"      \* null

RED == "RED"
YELLOW == "YELLOW"
GREEN == "GREEN"
LIGHT_STATES == {RED, YELLOW, GREEN}

LANE_WIDTH == 30
HALF_INTER == 60
INTERSECTION_SIZE == 120
ROAD_WIDTH == 60
CANVAS_WIDTH == 300
CANVAS_HEIGHT == 300
CX == 150
CY == 150
DEFAULT_STEPS == 28

\* null, for a path (a route and lane name the path built for them), a
\* timestamp and an optional car (a sequence of at most one)
NoPath == [from |-> "null", to |-> "null", lane |-> 0]
NullTime == 0 - 1

-----------------------------------------------------------------------------
(* Arithmetic helpers: Math.abs, Math.min, Math.max, Math.hypot, Math.cos *)

Abs(a) == IF a < 0 THEN -a ELSE a
Min(a, b) == IF a < b THEN a ELSE b
Max(a, b) == IF a > b THEN a ELSE b

\* n / d rounded to the nearest integer (d > 0)
RoundDiv(n, d) == (2 * n + d) \div (2 * d)

RECURSIVE SqrtSearch(_, _, _)
SqrtSearch(n, lo, hi) ==
    IF lo >= hi THEN lo
    ELSE LET mid == (lo + hi + 1) \div 2
         IN  IF mid * mid <= n THEN SqrtSearch(n, mid, hi)
             ELSE SqrtSearch(n, lo, mid - 1)

\* floor of the square root
ISqrt(n) == SqrtSearch(n, 0, Min(n, 46340))

\* Math.hypot on fixed-point lengths, rounded down to the fixed-point grid
Hypot(dx, dy) == ISqrt((4 * (dx * dx + dy * dy) + 1)) \div 2

\* cos(k * pi/56) * 10000 for k = 0..28
CosTab == <<10000, 9984, 9937, 9859, 9749, 9609, 9439, 9239, 9010, 8752,
            8467, 8156, 7818, 7456, 7071, 6663, 6235, 5787, 5320, 4837,
            4339, 3827, 3303, 2768, 2225, 1675, 1120, 561, 0>>

PI == 56            \* Math.PI in AngleUnits

Cos(a) ==
    LET m == a % (2 * PI)
    IN  IF m <= 28 THEN CosTab[m + 1]
        ELSE IF m <= 56 THEN -CosTab[56 - m + 1]
        ELSE IF m <= 84 THEN -CosTab[m - 56 + 1]
        ELSE CosTab[112 - m + 1]

Sin(a) == Cos(a - 28)

Pt(px, py) == [x |-> px, y |-> py]

-----------------------------------------------------------------------------
(* intersection.js: geometry and path builder *)

laneOffset(laneIndex) == (IF laneIndex = 0 THEN -1 ELSE 1) * ((LANE_WIDTH * Scale) \div 2)

BadRoad == [error |-> "Bad roadID"]

entryPoint(roadID, laneIndex) ==
    LET o == laneOffset(laneIndex)
    IN  CASE roadID = N -> Pt(CX * Scale + o, (CY - HALF_INTER) * Scale)
          [] roadID = S -> Pt(CX * Scale - o, (CY + HALF_INTER) * Scale)
          [] roadID = E -> Pt((CX + HALF_INTER) * Scale, CY * Scale + o)
          [] roadID = W -> Pt((CX - HALF_INTER) * Scale, CY * Scale - o)
          [] OTHER -> BadRoad

exitPoint(roadID, laneIndex) ==
    LET o == laneOffset(laneIndex)
    IN  CASE roadID = N -> Pt(CX * Scale - o, (CY - HALF_INTER) * Scale)
          [] roadID = S -> Pt(CX * Scale + o, (CY + HALF_INTER) * Scale)
          [] roadID = E -> Pt((CX + HALF_INTER) * Scale, CY * Scale - o)
          [] roadID = W -> Pt((CX - HALF_INTER) * Scale, CY * Scale + o)
          [] OTHER -> BadRoad

\* centre (cx, cy) and radius R in fixed point, A0 and A1 in AngleUnits
buildArcPath(cx, cy, R, A0, A1, steps) ==
    [k \in 1..(steps + 1) |->
        LET i == k - 1
            a == A0 + (i * (A1 - A0)) \div steps
        IN  Pt(cx + RoundDiv(R * Cos(a), 10000), cy + RoundDiv(R * Sin(a), 10000))]

buildLinePath(x0, y0, x1, y1, steps) ==
    [k \in 1..(steps + 1) |->
        LET i == k - 1
        IN  Pt(x0 + RoundDiv(i * (x1 - x0), steps), y0 + RoundDiv(i * (y1 - y0), steps))]

R_RIGHT == (HALF_INTER * Scale) - ((LANE_WIDTH * Scale) \div 2)
R_LEFT == (HALF_INTER * Scale) + ((LANE_WIDTH * Scale) \div 2)

NE == [cx |-> (CX + HALF_INTER) * Scale, cy |-> (CY - HALF_INTER) * Scale]
SE == [cx |-> (CX + HALF_INTER) * Scale, cy |-> (CY + HALF_INTER) * Scale]
SW == [cx |-> (CX - HALF_INTER) * Scale, cy |-> (CY + HALF_INTER) * Scale]
NW == [cx |-> (CX - HALF_INTER) * Scale, cy |-> (CY - HALF_INTER) * Scale]

\* withExitSnap without the appended tail
withExitSnapNoTail(path, roadOut, laneOut) == path

withExitSnap(path, roadOut, laneOut) ==
    LET ep == exitPoint(roadOut, laneOut)
        last == path[Len(path)]
        dx == ep.x - last.x
        dy == ep.y - last.y
    IN  IF dx * dx + dy * dy > 1 * Scale * Scale
        THEN LET tail == buildLinePath(last.x, last.y, ep.x, ep.y, 4)
             IN  path \o Tail(tail)
        ELSE path

straightPath(from, to, laneIndex) ==
    LET a == entryPoint(from, laneIndex)
        b == exitPoint(to, laneIndex)
    IN  buildLinePath(a.x, a.y, b.x, b.y, DEFAULT_STEPS)

rightTurnPath(from, laneIndex) ==
    CASE from = N -> withExitSnap(buildArcPath(NE.cx, NE.cy, R_RIGHT, PI, (3 * PI) \div 2, DEFAULT_STEPS), E, 1)
      [] from = E -> withExitSnap(buildArcPath(SE.cx, SE.cy, R_RIGHT, -(PI \div 2), 0, DEFAULT_STEPS), S, 1)
      [] from = S -> withExitSnap(buildArcPath(SW.cx, SW.cy, R_RIGHT, 0, PI \div 2, DEFAULT_STEPS), W, 1)
      [] from = W -> withExitSnap(buildArcPath(NW.cx, NW.cy, R_RIGHT, PI \div 2, PI, DEFAULT_STEPS), N, 1)

leftTurnPath(from, laneIndex) ==
    CASE from = N -> withExitSnap(buildArcPath(NW.cx, NW.cy, R_LEFT, 0, -(PI \div 2), DEFAULT_STEPS), W, 0)
      [] from = E -> withExitSnap(buildArcPath(NE.cx, NE.cy, R_LEFT, PI \div 2, PI, DEFAULT_STEPS), N, 0)
      [] from = S -> withExitSnap(buildArcPath(SE.cx, SE.cy, R_LEFT, -PI, -(PI \div 2), DEFAULT_STEPS), E, 0)
      [] from = W -> withExitSnap(buildArcPath(SW.cx, SW.cy, R_LEFT, PI, PI \div 2, DEFAULT_STEPS), S, 0)

\* getTurnType with the two turn tables exchanged
getTurnTypeSwapped(from, to) ==
    IF from = to THEN NONE
    ELSE IF (from = N /\ to = E) \/ (from = E /\ to = S) \/ (from = S /\ to = W) \/ (from = W /\ to = N) THEN LEFT
    ELSE IF (from = N /\ to = W) \/ (from = W /\ to = S) \/ (from = S /\ to = E) \/ (from = E /\ to = N) THEN RIGHT
    ELSE STRAIGHT

getTurnType(from, to) ==
    IF from = to THEN NONE
    ELSE IF (from = N /\ to = E) \/ (from = E /\ to = S) \/ (from = S /\ to = W) \/ (from = W /\ to = N) THEN RIGHT
    ELSE IF (from = N /\ to = W) \/ (from = W /\ to = S) \/ (from = S /\ to = E) \/ (from = E /\ to = N) THEN LEFT
    ELSE STRAIGHT

buildPath(from, to, laneIndex) ==
    LET t == getTurnType(from, to)
    IN  IF t = RIGHT THEN rightTurnPath(from, laneIndex)
        ELSE IF t = LEFT THEN leftTurnPath(from, laneIndex)
        ELSE straightPath(from, to, laneIndex)

RECURSIVE CumLensNoAccumulate(_, _)
\* the table holding each segment's own length instead of the running total
CumLensNoAccumulate(path, k) ==
    IF k = 1 THEN <<0>>
    ELSE Append(CumLensNoAccumulate(path, k - 1),
                Hypot(path[k].x - path[k - 1].x, path[k].y - path[k - 1].y))

RECURSIVE CumLens(_, _)
\* lens[1..k] of the path (lens[0] of the code is lens[1] here)
CumLens(path, k) ==
    IF k = 1 THEN <<0>>
    ELSE LET prev == CumLens(path, k - 1)
             dx == path[k].x - path[k - 1].x
             dy == path[k].y - path[k - 1].y
         IN  Append(prev, prev[k - 1] + Hypot(dx, dy))

withCumulativeLengths(path) ==
    LET lens == CumLens(path, Len(path))
    IN  [path |-> path, lens |-> lens, total |-> lens[Len(lens)]]

-----------------------------------------------------------------------------
(* intersection.js: class Intersection (constructed at the canvas centre) *)

stopLineOffset == (INTERSECTION_SIZE \div 2 + 5) * Scale

\* stopLines[direction]: x1, y1 are the fields getDistanceToStopLine reads
stopLines(direction) ==
    CASE direction = N -> [x1 |-> (CX - ROAD_WIDTH \div 2) * Scale, y1 |-> CY * Scale - stopLineOffset]
      [] direction = E -> [x1 |-> CX * Scale + stopLineOffset, y1 |-> (CY - ROAD_WIDTH \div 2) * Scale]
      [] direction = S -> [x1 |-> (CX - ROAD_WIDTH \div 2) * Scale, y1 |-> CY * Scale + stopLineOffset]
      [] direction = W -> [x1 |-> CX * Scale - stopLineOffset, y1 |-> (CY - ROAD_WIDTH \div 2) * Scale]

spawnPoints(direction) ==
    LET off == (LANE_WIDTH * Scale) \div 2
    IN  CASE direction = N -> Pt(CX * Scale - off, 0)
          [] direction = E -> Pt(CANVAS_WIDTH * Scale, CY * Scale - off)
          [] direction = S -> Pt(CX * Scale + off, CANVAS_HEIGHT * Scale)
          [] direction = W -> Pt(0, CY * Scale + off)

isInIntersection(x, y) ==
    LET halfRoad == (ROAD_WIDTH * Scale) \div 2
    IN  /\ x >= CX * Scale - halfRoad
        /\ x <= CX * Scale + halfRoad
        /\ y >= CY * Scale - halfRoad
        /\ y <= CY * Scale + halfRoad

-----------------------------------------------------------------------------
(* class Car *)

Routes == {r \in [from : Dirs, to : Dirs] : r.from # r.to}
PathKeys == [from : Dirs, to : Dirs, lane : {0, 1}]

\* the profile beginTurnIfNeeded computes for a route and lane
PathProfiles == [k \in {q \in PathKeys : q.from # q.to} |->
                    withCumulativeLengths(buildPath(k.from, k.to, k.lane))] @@ <<>>

pathProfile(c) == PathProfiles[c.path]

DEFAULT_CAR_SPEED == 80

\* atan2(dy, dx) as the unit vector of that direction
Atan2(dy, dx) ==
    IF dx = 0 /\ dy = 0 THEN [dx |-> Unit, dy |-> 0]
    ELSE LET h == Hypot(dx, dy)
         IN  [dx |-> RoundDiv(dx * Unit, h), dy |-> RoundDiv(dy * Unit, h)]

getInitialAngle(direction) ==
    CASE direction = N -> [dx |-> 0, dy |-> Unit]
      [] direction = E -> [dx |-> -Unit, dy |-> 0]
      [] direction = S -> [dx |-> 0, dy |-> -Unit]
      [] direction = W -> [dx |-> Unit, dy |-> 0]
      [] OTHER -> [dx |-> Unit, dy |-> 0]

getTargetExitAngle(c) ==
    CASE c.toDirection = N -> [dx |-> 0, dy |-> -Unit]
      [] c.toDirection = E -> [dx |-> Unit, dy |-> 0]
      [] c.toDirection = S -> [dx |-> 0, dy |-> Unit]
      [] c.toDirection = W -> [dx |-> -Unit, dy |-> 0]
      [] OTHER -> c.angle

\* new Car({id, direction, intersection, route, lane})
NewCar(id, direction, route, lane) ==
    [ id |-> id,
      fromDirection |-> direction,
      route |-> route,
      lane |-> lane,
      turnType |-> getTurnType(route.from, route.to),
      toDirection |-> route.to,
      path |-> NoPath,
      pathProgress |-> [num |-> 0, den |-> 1],
      hasAssignedPath |-> FALSE,
      x |-> spawnPoints(direction).x,
      y |-> spawnPoints(direction).y,
      angle |-> getInitialAngle(direction),
      speed |-> 0,
      maxSpeed |-> DEFAULT_CAR_SPEED * Scale,
      state |-> "approaching",
      waitStartTime |-> NullTime,
      totalWaitTime |-> 0,
      isInIntersection |-> FALSE,
      \* history, not fields of the class: the clock when the car last became
      \* 'waiting', the distance advanced along the bound path, and whether an
      \* update has left the car 'crossing' at a point of the intersection
      hWaitEntered |-> NullTime,
      hTravelled |-> 0,
      hInsideCrossing |-> FALSE ]

\* beginTurnIfNeeded leaving a straight route to the angle-based motion
beginTurnIfNeededTurnsOnly(c) ==
    IF c.hasAssignedPath THEN c
    ELSE IF getTurnType(c.route.from, c.route.to) \in {NONE, STRAIGHT} THEN c
    ELSE [c EXCEPT !.path = [from |-> c.route.from, to |-> c.route.to, lane |-> c.lane],
                   !.pathProgress = [num |-> 0, den |-> 1],
                   !.hasAssignedPath = TRUE]

beginTurnIfNeeded(c) ==
    IF c.hasAssignedPath THEN c
    ELSE IF getTurnType(c.route.from, c.route.to) = NONE THEN c
    ELSE [c EXCEPT !.path = [from |-> c.route.from, to |-> c.route.to, lane |-> c.lane],
                   !.pathProgress = [num |-> 0, den |-> 1],
                   !.hasAssignedPath = TRUE]

prepareForTurn(c) ==
    IF c.turnType = LEFT THEN [c EXCEPT !.lane = 0]
    ELSE IF c.turnType = RIGHT THEN [c EXCEPT !.lane = 1]
    ELSE c

getDistanceToStopLine(c, stopLine) ==
    CASE c.fromDirection = N -> Abs(c.y - stopLine.y1)
      [] c.fromDirection = E -> Abs(c.x - stopLine.x1)
      [] c.fromDirection = S -> Abs(c.y - stopLine.y1)
      [] c.fromDirection = W -> Abs(c.x - stopLine.x1)
      [] OTHER -> 0

\* signed distance from c to o along c's axis of travel
AheadDistance(c, o) ==
    CASE c.fromDirection = N -> o.y - c.y
      [] c.fromDirection = E -> c.x - o.x
      [] c.fromDirection = S -> c.y - o.y
      [] c.fromDirection = W -> o.x - c.x

RECURSIVE AheadScan(_, _, _, _)
\* the loop of checkForCarAhead over allCars[i..]: index of the closest car, 0 for null
AheadScan(c, allCars, i, closest) ==
    IF i > Len(allCars) THEN closest
    ELSE LET o == allCars[i]
             d == AheadDistance(c, o)
         IN  IF o.id = c.id \/ o.fromDirection # c.fromDirection
             THEN AheadScan(c, allCars, i + 1, closest)
             ELSE IF d > 0 /\ (closest = 0 \/ d < AheadDistance(c, allCars[closest]))
             THEN AheadScan(c, allCars, i + 1, i)
             ELSE AheadScan(c, allCars, i + 1, closest)

RECURSIVE AheadScanFirst(_, _, _)
\* the loop of checkForCarAhead stopping at the first car ahead
AheadScanFirst(c, allCars, i) ==
    IF i > Len(allCars) THEN 0
    ELSE IF allCars[i].id # c.id /\ allCars[i].fromDirection = c.fromDirection
            /\ AheadDistance(c, allCars[i]) > 0
         THEN i
         ELSE AheadScanFirst(c, allCars, i + 1)

\* checkForCarAhead returning the first car ahead instead of the closest
checkForCarAheadFirst(c, allCars) == AheadScanFirst(c, allCars, 1)

checkForCarAhead(c, allCars) == AheadScan(c, allCars, 1, 0)

getDistanceToCarAhead(c, carAhead) == AheadDistance(c, carAhead)

\* updateApproaching stopping behind a close car at a red light only
updateApproachingRedOnly(c0, deltaTime, ls, allCars, t) ==
    LET c == prepareForTurn(c0)
        distanceToStop == getDistanceToStopLine(c, stopLines(c.fromDirection))
        carAhead == checkForCarAhead(c, allCars)
        shouldStop == carAhead # 0 /\ getDistanceToCarAhead(c, allCars[carAhead]) < 35 * Scale
    IN  IF (distanceToStop <= 30 * Scale \/ shouldStop) /\ ls[c.fromDirection] = RED
        THEN [c EXCEPT !.state = "waiting",
                       !.speed = 0,
                       !.waitStartTime = IF ~shouldStop THEN t ELSE @]
        ELSE LET c1 == [c EXCEPT !.speed = Min(c.maxSpeed, c.speed + (30 * Scale * deltaTime) \div 1000)]
             IN  IF c1.isInIntersection
                 THEN beginTurnIfNeeded([c1 EXCEPT !.state = "crossing"])
                 ELSE c1

\* dt seconds are deltaTime milliseconds
updateApproaching(c0, deltaTime, ls, allCars, t) ==
    LET c == prepareForTurn(c0)
        distanceToStop == getDistanceToStopLine(c, stopLines(c.fromDirection))
        carAhead == checkForCarAhead(c, allCars)
        shouldStop == carAhead # 0 /\ getDistanceToCarAhead(c, allCars[carAhead]) < 35 * Scale
    IN  IF (distanceToStop <= 30 * Scale \/ shouldStop) /\ (ls[c.fromDirection] = RED \/ shouldStop)
        THEN [c EXCEPT !.state = "waiting",
                       !.speed = 0,
                       !.waitStartTime = IF ~shouldStop THEN t ELSE @]
        ELSE LET c1 == [c EXCEPT !.speed = Min(c.maxSpeed, c.speed + (30 * Scale * deltaTime) \div 1000)]
             IN  IF c1.isInIntersection
                 THEN beginTurnIfNeeded([c1 EXCEPT !.state = "crossing"])
                 ELSE c1

\* updateWaiting leaving for 'exiting' instead of 'crossing'
updateWaitingSkipsCrossing(c, deltaTime, ls, t) ==
    LET c1 == [c EXCEPT !.speed = 0,
                        !.totalWaitTime = IF c.waitStartTime # NullTime /\ c.waitStartTime # 0
                                          THEN t - c.waitStartTime ELSE @]
    IN  IF ls[c.fromDirection] = GREEN \/ ls[c.fromDirection] = YELLOW
        THEN [c1 EXCEPT !.state = "exiting", !.waitStartTime = NullTime]
        ELSE c1

\* updateWaiting released by a green or yellow light of any direction
updateWaitingAnyLight(c, deltaTime, ls, t) ==
    LET c1 == [c EXCEPT !.speed = 0,
                        !.totalWaitTime = IF c.waitStartTime # NullTime /\ c.waitStartTime # 0
                                          THEN t - c.waitStartTime ELSE @]
    IN  IF \E d \in Dirs : ls[d] = GREEN \/ ls[d] = YELLOW
        THEN [c1 EXCEPT !.state = "crossing", !.waitStartTime = NullTime]
        ELSE c1

\* updateWaiting adding up the frames' deltaTime instead of reading the clock
updateWaitingSimTime(c, deltaTime, ls, t) ==
    LET c1 == [c EXCEPT !.speed = 0,
                        !.totalWaitTime = IF c.waitStartTime # NullTime /\ c.waitStartTime # 0
                                          THEN @ + deltaTime ELSE @]
    IN  IF ls[c.fromDirection] = GREEN \/ ls[c.fromDirection] = YELLOW
        THEN [c1 EXCEPT !.state = "crossing", !.waitStartTime = NullTime]
        ELSE c1

updateWaiting(c, deltaTime, ls, t) ==
    LET c1 == [c EXCEPT !.speed = 0,
                        !.totalWaitTime = IF c.waitStartTime # NullTime /\ c.waitStartTime # 0
                                          THEN t - c.waitStartTime ELSE @]
    IN  IF ls[c.fromDirection] = GREEN \/ ls[c.fromDirection] = YELLOW
        THEN [c1 EXCEPT !.state = "crossing", !.waitStartTime = NullTime]
        ELSE c1

\* updateCrossing without the cap of 1.2 * maxSpeed
updateCrossingUncapped(c, deltaTime) ==
    LET c1 == [c EXCEPT !.speed = c.speed + (40 * Scale * deltaTime) \div 1000]
    IN  IF ~c1.isInIntersection THEN [c1 EXCEPT !.state = "exiting"] ELSE c1

updateCrossing(c, deltaTime) ==
    LET c1 == [c EXCEPT !.speed = Min((c.maxSpeed * 12) \div 10, c.speed + (40 * Scale * deltaTime) \div 1000)]
    IN  IF ~c1.isInIntersection THEN [c1 EXCEPT !.state = "exiting"] ELSE c1

\* updateExiting taking the route one leg further, as for a list of legs
updateExitingAdvancesRoute(c, deltaTime) ==
    LET c1 == [prepareForTurn(c) EXCEPT !.speed = c.maxSpeed,
                                        !.route = [from |-> c.route.to, to |-> c.route.to]]
        hasExited == \/ c1.x < -50 * Scale
                     \/ c1.x > (CANVAS_WIDTH + 50) * Scale
                     \/ c1.y < -50 * Scale
                     \/ c1.y > (CANVAS_HEIGHT + 50) * Scale
    IN  IF hasExited THEN [c1 EXCEPT !.state = "completed"] ELSE c1

\* this.route is the object {from, to}: its length is undefined and the
\* slice of the route never runs
updateExiting(c, deltaTime) ==
    LET c1 == [prepareForTurn(c) EXCEPT !.speed = c.maxSpeed]
        hasExited == \/ c1.x < -50 * Scale
                     \/ c1.x > (CANVAS_WIDTH + 50) * Scale
                     \/ c1.y < -50 * Scale
                     \/ c1.y > (CANVAS_HEIGHT + 50) * Scale
    IN  IF hasExited THEN [c1 EXCEPT !.state = "completed"] ELSE c1

\* the switch at the head of Car.update
updateState(c, deltaTime, ls, allCars, t) ==
    CASE c.state = "approaching" -> updateApproaching(c, deltaTime, ls, allCars, t)
      [] c.state = "waiting" -> updateWaiting(c, deltaTime, ls, t)
      [] c.state = "crossing" -> updateCrossing(c, deltaTime)
      [] c.state = "exiting" -> updateExiting(c, deltaTime)
      [] OTHER -> c

\* first 0-based index i with lens[i] >= sNew, or lens.length
RECURSIVE SegSearch(_, _, _)
SegSearch(lens, sNew, i) ==
    IF i < Len(lens) /\ lens[i + 1] < sNew THEN SegSearch(lens, sNew, i + 1) ELSE i

\* the car put at (px, py) on a segment of direction (dy, dx), sNew along the path
atPoint(c, sNew, total, dy, dx, px, py) ==
    [c EXCEPT !.x = px,
              !.y = py,
              !.angle = Atan2(dy, dx),
              !.pathProgress = [num |-> sNew, den |-> total],
              !.isInIntersection = isInIntersection(px, py)]

\* the interpolation on the segment [p0, p1] that holds the distance sNew
interpolate(c, sNew, total, s0, s1, p0, p1) ==
    atPoint(c, sNew, total, p1.y - p0.y, p1.x - p0.x,
            IF s1 > s0 THEN p0.x + RoundDiv((sNew - s0) * (p1.x - p0.x), s1 - s0) ELSE p0.x,
            IF s1 > s0 THEN p0.y + RoundDiv((sNew - s0) * (p1.y - p0.y), s1 - s0) ELSE p0.y)

\* the segment [i0, i1] for the index i found by the search
onSegment(c, prof, sNew, i1) ==
    interpolate(c, sNew, prof.total,
                prof.lens[Max(0, i1 - 1) + 1], prof.lens[i1 + 1],
                prof.path[Max(0, i1 - 1) + 1], prof.path[i1 + 1])

\* reached end of path: snap to the last point, heading of the last segment
endOfPath(c, last, prev) ==
    [c EXCEPT !.x = last.x,
              !.y = last.y,
              !.angle = Atan2(last.y - prev.y, last.x - prev.x),
              !.path = NoPath,
              !.pathProgress = [num |-> 0, den |-> 1]]

\* the path branch for the profile prof and the new distance sNew
followProfile(c, prof, sNew) ==
    IF sNew >= prof.total
    THEN endOfPath(c, prof.path[Len(prof.path)],
                   IF Len(prof.path) >= 2 THEN prof.path[Len(prof.path) - 1]
                   ELSE prof.path[Len(prof.path)])
    ELSE onSegment(c, prof, sNew, Min(SegSearch(prof.lens, sNew, 0), Len(prof.path) - 1))

\* sCurrent: the current pathProgress (0..1) as a distance
sCurrent(c, prof) == (prof.total * c.pathProgress.num) \div c.pathProgress.den

\* the path branch measuring progress from the start of the path on every tick
followPathNoAccumulate(c, deltaTime) ==
    followProfile(c, pathProfile(c), (c.speed * deltaTime) \div 1000)

\* reached end of path, the car left where the overshoot puts it, heading unchanged
endOfPathNoSnap(c, advance) ==
    [c EXCEPT !.x = c.x + (c.angle.dx * advance) \div Unit,
              !.y = c.y + (c.angle.dy * advance) \div Unit,
              !.path = NoPath,
              !.pathProgress = [num |-> 0, den |-> 1]]

followProfileNoSnap(c, prof, sNew, advance) ==
    IF sNew >= prof.total
    THEN endOfPathNoSnap(c, advance)
    ELSE onSegment(c, prof, sNew, Min(SegSearch(prof.lens, sNew, 0), Len(prof.path) - 1))

\* the path branch without the snap to the path's last point
followPathNoSnapOn(c, prof, advance) ==
    followProfileNoSnap(c, prof, sCurrent(c, prof) + advance, advance)

followPathNoSnap(c, deltaTime) ==
    followPathNoSnapOn(c, pathProfile(c), (c.speed * deltaTime) \div 1000)

followPathOn(c, prof, advance) == followProfile(c, prof, sCurrent(c, prof) + advance)

\* the path branch of Car.update
followPath(c, deltaTime) ==
    followPathOn(c, pathProfile(c), (c.speed * deltaTime) \div 1000)

\* the angle branch of Car.update
moveTo(c, px, py) ==
    [c EXCEPT !.x = px, !.y = py, !.isInIntersection = isInIntersection(px, py)]

moveStraight(c, deltaTime) ==
    moveTo(c, c.x + (c.angle.dx * ((c.speed * deltaTime) \div 1000)) \div Unit,
              c.y + (c.angle.dy * ((c.speed * deltaTime) \div 1000)) \div Unit)

\* the history fields after an update of c that switched it to c1 and moved it to c2
observe(c, c1, c2, deltaTime, t) ==
    [c2 EXCEPT !.hWaitEntered = IF c.state # "waiting" /\ c1.state = "waiting" THEN t ELSE @,
               !.hTravelled = IF c1.path = NoPath THEN 0
                              ELSE (IF c.path = NoPath THEN 0 ELSE @) + (c1.speed * deltaTime) \div 1000,
               !.hInsideCrossing = @ \/ (c2.state = "crossing" /\ isInIntersection(c2.x, c2.y))]

\* the second half of Car.update: c1 is the car after the state switch
updatePosition(c, c1, deltaTime, t) ==
    observe(c, c1,
            IF c1.path # NoPath THEN followPath(c1, deltaTime) ELSE moveStraight(c1, deltaTime),
            deltaTime, t)

\* Car.update(deltaTime, lightStates); t is Date.now()
CarUpdate(c, deltaTime, ls, allCars, t) ==
    updatePosition(c, updateState(c, deltaTime, ls, allCars, t), deltaTime, t)

-----------------------------------------------------------------------------
(* class CarManager *)

\* utils.getDistance: Euclidean distance, rounded down
getDistance(x1, y1, x2, y2) == ISqrt((x2 - x1) * (x2 - x1) + (y2 - y1) * (y2 - y1))

\* this.spawnTimer >= 10000 / CAR_SPAWN_RATE, for a positive rate
spawnDue(timer, rate) == timer * rate >= 10000

\* tooClose with half the spacing
tooCloseHalf(cs, direction) ==
    LET spawnPoint == spawnPoints(direction)
    IN  \E i \in 1..Len(cs) :
            /\ cs[i].fromDirection = direction
            /\ getDistance(cs[i].x, cs[i].y, spawnPoint.x, spawnPoint.y) < 30 * Scale

tooClose(cs, direction) ==
    LET spawnPoint == spawnPoints(direction)
    IN  \E i \in 1..Len(cs) :
            /\ cs[i].fromDirection = direction
            /\ getDistance(cs[i].x, cs[i].y, spawnPoint.x, spawnPoint.y) < 60 * Scale

\* spawnCar keeping the random lane whatever the turn type
spawnCarRandomLane(cs, id, direction, destination, laneRnd) ==
    IF ~tooClose(cs, direction)
    THEN LET car == NewCar(id, direction, [from |-> direction, to |-> destination], laneRnd)
         IN  [cars |-> Append(cs, car), nextCarId |-> id + 1, spawned |-> <<car>>]
    ELSE [cars |-> cs, nextCarId |-> id, spawned |-> <<>>]

\* spawnCar taking the next id before it looks for room
spawnCarBurnsId(cs, id, direction, destination, laneRnd) ==
    LET turnType == getTurnType(direction, destination)
        lane == IF turnType = LEFT THEN 0 ELSE IF turnType = RIGHT THEN 1 ELSE laneRnd
    IN  IF ~tooClose(cs, direction)
        THEN LET car == NewCar(id, direction, [from |-> direction, to |-> destination], lane)
             IN  [cars |-> Append(cs, car), nextCarId |-> id + 1, spawned |-> <<car>>]
        ELSE [cars |-> cs, nextCarId |-> id + 1, spawned |-> <<>>]

\* spawnCar with the three Math.random() draws given: the new fleet, id counter and car
spawnCar(cs, id, direction, destination, laneRnd) ==
    LET turnType == getTurnType(direction, destination)
        lane == IF turnType = LEFT THEN 0 ELSE IF turnType = RIGHT THEN 1 ELSE laneRnd
    IN  IF ~tooClose(cs, direction)
        THEN LET car == NewCar(id, direction, [from |-> direction, to |-> destination], lane)
             IN  [cars |-> Append(cs, car), nextCarId |-> id + 1, spawned |-> <<car>>]
        ELSE [cars |-> cs, nextCarId |-> id, spawned |-> <<>>]

\* car.update(deltaTime, lightStates) for the car at index i of the live list
updateCarAt(cs, i, deltaTime, ls, t) ==
    [cs EXCEPT ![i] = CarUpdate(cs[i], deltaTime, ls, cs, t)]

RECURSIVE updateCars(_, _, _, _, _, _)
\* this.cars.forEach(car => { car.maxSpeed = ...; car.update(deltaTime, lightStates) }), from index i
updateCars(cs, i, deltaTime, ls, speed, t) ==
    IF i > Len(cs) THEN cs
    ELSE updateCars(updateCarAt([cs EXCEPT ![i].maxSpeed = speed], i, deltaTime, ls, t),
                    i + 1, deltaTime, ls, speed, t)

isCompleted(c) == c.state = "completed"

\* completedCars.forEach(car => this.onCarCompleted(car)): the cars handed to the callback
completedCars(cs) == SelectSeq(cs, isCompleted)

\* the final filter keeping every car
removeCompletedKeepsAll(cs) == cs

removeCompleted(cs) == SelectSeq(cs, LAMBDA c : ~isCompleted(c))

\* the end of update with the spawn timer left as it was after an attempt
retireCompletedKeepsTimer(updated, sp, timer, due) ==
    [ cars |-> removeCompleted(updated),
      nextCarId |-> sp.nextCarId,
      spawnTimer |-> timer,
      attempted |-> due,
      spawned |-> sp.spawned,
      reported |-> completedCars(updated) ]

\* the end of update: updated is the fleet after the forEach, sp the spawn's outcome
retireCompleted(updated, sp, timer, due) ==
    [ cars |-> removeCompleted(updated),
      nextCarId |-> sp.nextCarId,
      spawnTimer |-> IF due THEN 0 ELSE timer,
      attempted |-> due,
      spawned |-> sp.spawned,
      reported |-> completedCars(updated) ]

\* the forEach and what follows it
updateSpawned(sp, timer, due, deltaTime, ls, t) ==
    retireCompleted(updateCars(sp.cars, 1, deltaTime, ls, settings.CAR_SPEED, t), sp, timer, due)

\* the update with the spawn moved behind the forEach
updateFromSpawnsLast(timer, due, deltaTime, ls, t, direction, destination, laneRnd) ==
    LET updated == updateCars(cars, 1, deltaTime, ls, settings.CAR_SPEED, t)
        sp == IF due THEN spawnCar(updated, nextCarId, direction, destination, laneRnd)
              ELSE [cars |-> updated, nextCarId |-> nextCarId, spawned |-> <<>>]
    IN  retireCompleted(sp.cars, sp, timer, due)

\* the update from the spawn on, for the spawn timer after this.spawnTimer += deltaTime
updateFrom(timer, due, deltaTime, ls, t, direction, destination, laneRnd) ==
    updateSpawned(IF due THEN spawnCar(cars, nextCarId, direction, destination, laneRnd)
                  ELSE [cars |-> cars, nextCarId |-> nextCarId, spawned |-> <<>>],
                  timer, due, deltaTime, ls, t)

managerUpdate(deltaTime, ls, t, direction, destination, laneRnd) ==
    updateFrom(spawnTimer + deltaTime, spawnDue(spawnTimer + deltaTime, settings.CAR_SPAWN_RATE),
               deltaTime, ls, t, direction, destination, laneRnd)

-----------------------------------------------------------------------------
(* Inputs *)

ClockStart == 1000000           \* Date.now() at construction (ms)
DeltaTimes == {1000}            \* deltaTime of a frame (ms)
Elapsed == {1500}               \* real time between two frames (ms)
MinElapsed == CHOOSE e \in Elapsed : \A f \in Elapsed : e <= f
\* the run is cut after MaxFrames frames
ClockEnd == ClockStart + MaxFrames * MinElapsed

\* the settings panel: fast and frequent, or slow and rare
SettingsSet == {[CAR_SPEED |-> 80 * Scale, CAR_SPAWN_RATE |-> 10],
                [CAR_SPEED |-> 30 * Scale, CAR_SPAWN_RATE |-> 1]}

\* the controller's phases: all red, or one axis green or yellow
LightInputs == {[d \in Dirs |-> RED]}
               \cup {[d \in Dirs |-> IF d \in {N, S} THEN c ELSE RED] : c \in {GREEN, YELLOW}}
               \cup {[d \in Dirs |-> IF d \in {E, W} THEN GREEN ELSE RED]}

\* the outcomes of spawnCar's Math.random() draws in the fleet specification
SpawnDirections == {N}
SpawnDestinations(direction) == {d \in Dirs \ {direction} : getTurnType(direction, d) = STRAIGHT}
SpawnLanes == {1}

NoTick == [deltaTime |-> 0, attempted |-> FALSE, direction |-> "none", spawned |-> <<>>,
           reported |-> <<>>, frame |-> 0]
NoProbe == [op |-> "none", from |-> N, to |-> N, lane |-> 0]

-----------------------------------------------------------------------------
(* Spec: the fleet. CarManager driven by the frame loop, the settings      *)
(* panel and the light controller. The clock moves in frames only.         *)

Init ==
    /\ cars = <<>>
    /\ nextCarId = 1
    /\ spawnTimer = 0
    /\ settings \in SettingsSet
    /\ lightStates \in LightInputs
    /\ now = ClockStart
    /\ tick = NoTick
    /\ probe = NoProbe

\* the state after an update call that returned r, in a run of at most maxId cars
UpdatedUpTo(r, deltaTime, elapsed, direction, maxId) ==
    /\ now + elapsed <= ClockEnd
    /\ r.spawned # <<>> => nextCarId <= maxId
    /\ now' = now + elapsed
    /\ cars' = r.cars
    /\ nextCarId' = r.nextCarId
    /\ spawnTimer' = r.spawnTimer
    /\ tick' = [deltaTime |-> deltaTime, attempted |-> r.attempted,
                direction |-> IF r.attempted THEN direction ELSE "none",
                spawned |-> r.spawned, reported |-> r.reported, frame |-> 0]
    /\ UNCHANGED <<settings, lightStates, probe>>

Updated(r, deltaTime, elapsed, direction) == UpdatedUpTo(r, deltaTime, elapsed, direction, MaxCarId)

Frame(deltaTime, elapsed, direction, destination, laneRnd) ==
    Updated(managerUpdate(deltaTime, lightStates, now + elapsed, direction, destination, laneRnd),
            deltaTime, elapsed, direction)

UpdateNoSpawn ==
    \E deltaTime \in DeltaTimes, elapsed \in Elapsed :
        /\ ~spawnDue(spawnTimer + deltaTime, settings.CAR_SPAWN_RATE)
        /\ Frame(deltaTime, elapsed, N, S, 0)

UpdateSpawn ==
    \E deltaTime \in DeltaTimes, elapsed \in Elapsed :
        /\ spawnDue(spawnTimer + deltaTime, settings.CAR_SPAWN_RATE)
        /\ \E direction \in SpawnDirections, laneRnd \in SpawnLanes :
             \E destination \in SpawnDestinations(direction) :
                Frame(deltaTime, elapsed, direction, destination, laneRnd)

UpdateSettings ==
    \E s \in SettingsSet :
        /\ s # settings
        /\ settings' = s
        /\ UNCHANGED <<cars, nextCarId, spawnTimer, lightStates, now, tick, probe>>

SetLights ==
    \E ls \in LightInputs :
        /\ ls # lightStates
        /\ lightStates' = ls
        /\ UNCHANGED <<cars, nextCarId, spawnTimer, settings, now, tick, probe>>

Next ==
    \/ UpdateNoSpawn
    \/ UpdateSpawn
    \/ UpdateSettings
    \/ SetLights

Spec == Init /\ [][Next]_vars

-----------------------------------------------------------------------------
(* SpecCar: one Car of any route and lane, constructed directly and driven *)
(* by Car.update, its maxSpeed set by the caller before every call.        *)

InitCar ==
    /\ \E r \in Routes, lane \in {0, 1} : cars = <<NewCar(1, r.from, r, lane)>>
    /\ nextCarId = 2
    /\ spawnTimer = 0
    /\ settings \in SettingsSet
    /\ lightStates \in LightInputs
    /\ now = ClockStart
    /\ tick = NoTick
    /\ probe = NoProbe

CarFrame ==
    \E deltaTime \in DeltaTimes, elapsed \in Elapsed :
        /\ now + elapsed <= ClockEnd
        /\ now' = now + elapsed
        /\ cars' = updateCars(cars, 1, deltaTime, lightStates, settings.CAR_SPEED, now + elapsed)
        /\ tick' = [NoTick EXCEPT !.deltaTime = deltaTime]
        /\ UNCHANGED <<nextCarId, spawnTimer, settings, lightStates, probe>>

NextCar ==
    \/ CarFrame
    \/ UpdateSettings
    \/ SetLights

SpecCar == InitCar /\ [][NextCar]_vars

-----------------------------------------------------------------------------
(* SpecGeom: the pure functions of intersection.js applied to every        *)
(* direction pair and lane.                                                *)

InitGeom ==
    /\ cars = <<>>
    /\ nextCarId = 1
    /\ spawnTimer = 0
    /\ settings = [CAR_SPEED |-> DEFAULT_CAR_SPEED * Scale, CAR_SPAWN_RATE |-> 10]
    /\ lightStates = [d \in Dirs |-> RED]
    /\ now = ClockStart
    /\ tick = NoTick
    /\ \E from \in Dirs, to \in Dirs, lane \in {0, 1} :
          probe = [op |-> "input", from |-> from, to |-> to, lane |-> lane]

CallGetTurnType ==
    /\ probe.op = "input"
    /\ probe' = [op |-> "getTurnType", from |-> probe.from, to |-> probe.to, lane |-> probe.lane,
                 result |-> getTurnType(probe.from, probe.to)]
    /\ UNCHANGED fleetVars

CallBuildPath ==
    /\ probe.op = "input"
    /\ probe' = [op |-> "buildPath", from |-> probe.from, to |-> probe.to, lane |-> probe.lane,
                 result |-> buildPath(probe.from, probe.to, probe.lane)]
    /\ UNCHANGED fleetVars

CallWithCumulativeLengths ==
    /\ probe.op = "buildPath"
    /\ probe' = [op |-> "withCumulativeLengths", from |-> probe.from, to |-> probe.to, lane |-> probe.lane,
                 result |-> withCumulativeLengths(probe.result)]
    /\ UNCHANGED fleetVars

NextGeom ==
    \/ CallGetTurnType
    \/ CallBuildPath
    \/ CallWithCumulativeLengths

SpecGeom == InitGeom /\ [][NextGeom]_vars

-----------------------------------------------------------------------------
(* SpecSpawn: the fleet with spawnCar's three draws unrestricted (every    *)
(* origin, destination and lane), one vehicle on the road at a time: a run *)
(* is followed as long as no vehicle is added next to a live one.          *)

\* the settings panel of this fleet: frequent or rare spawns at full speed
SpawnSettingsSet == {[CAR_SPEED |-> 80 * Scale, CAR_SPAWN_RATE |-> 10],
                     [CAR_SPEED |-> 80 * Scale, CAR_SPAWN_RATE |-> 1]}

InitSpawn ==
    /\ cars = <<>>
    /\ nextCarId = 1
    /\ spawnTimer = 0
    /\ settings \in SpawnSettingsSet
    /\ lightStates \in LightInputs
    /\ now = ClockStart
    /\ tick = NoTick
    /\ probe = NoProbe

UpdateSpawnAny ==
    \E deltaTime \in DeltaTimes, elapsed \in Elapsed :
        /\ spawnDue(spawnTimer + deltaTime, settings.CAR_SPAWN_RATE)
        /\ \E direction \in Dirs, laneRnd \in {0, 1} :
             \E destination \in Dirs \ {direction} :
                /\ Frame(deltaTime, elapsed, direction, destination, laneRnd)
                /\ tick'.spawned # <<>> => cars = <<>>

UpdateSpawnSettings ==
    \E s \in SpawnSettingsSet :
        /\ s # settings
        /\ settings' = s
        /\ UNCHANGED <<cars, nextCarId, spawnTimer, lightStates, now, tick, probe>>

NextSpawn ==
    \/ UpdateNoSpawn
    \/ UpdateSpawnAny
    \/ UpdateSpawnSettings
    \/ SetLights

SpecSpawn == InitSpawn /\ [][NextSpawn]_vars

-----------------------------------------------------------------------------
(* SpecDelta: the fleet of Spec driven by a frame loop that may hand any   *)
(* deltaTime to CarManager.update: positive, zero or negative. The lights  *)
(* keep the phase the run starts in.                                       *)

DeltaTimesAny == {0 - 1000, 0, 1000}

\* one spawn rate, of an interval (500 ms) that a frame can span twice over
DeltaSettings == [CAR_SPEED |-> 80 * Scale, CAR_SPAWN_RATE |-> 20]

InitDelta ==
    /\ cars = <<>>
    /\ nextCarId = 1
    /\ spawnTimer = 0
    /\ settings = DeltaSettings
    /\ lightStates \in LightInputs
    /\ now = ClockStart
    /\ tick = NoTick
    /\ probe = NoProbe

\* CarManager.update(deltaTime, lightStates) for any deltaTime
UpdateAnyDelta ==
    \E deltaTime \in DeltaTimesAny, elapsed \in Elapsed :
        \E direction \in SpawnDirections, laneRnd \in SpawnLanes :
            \E destination \in SpawnDestinations(direction) :
                Frame(deltaTime, elapsed, direction, destination, laneRnd)

NextDelta == UpdateAnyDelta

SpecDelta == InitDelta /\ [][NextDelta]_vars

-----------------------------------------------------------------------------
(* SpecLive: one Car as spawnCar constructs it, updated for ever by the    *)
(* frame loop with frames of one or three seconds and dropped from the     *)
(* fleet once completed. The clock reads the same millisecond throughout,  *)
(* and positions further than Horizon beyond the canvas are identified     *)
(* (nothing the code computes for a car out there depends on how far out   *)
(* it is), so that a run that goes on for ever is a cycle of finitely many *)
(* states. tick.frame flips at every frame.                                *)

LiveDeltaTimes == {1000, 3000}

\* the lane spawnCar gives a route, for the random lane laneRnd
spawnLane(route, laneRnd) ==
    IF getTurnType(route.from, route.to) = LEFT THEN 0
    ELSE IF getTurnType(route.from, route.to) = RIGHT THEN 1
    ELSE laneRnd

atHorizon(c) ==
    [c EXCEPT !.x = Max(0 - Horizon * Scale, Min((CANVAS_WIDTH + Horizon) * Scale, @)),
              !.y = Max(0 - Horizon * Scale, Min((CANVAS_HEIGHT + Horizon) * Scale, @))]

horizonCars(cs) == [i \in 1..Len(cs) |-> atHorizon(cs[i])]

InitLive ==
    /\ \E r \in Routes, laneRnd \in {0, 1} : cars = <<NewCar(1, r.from, r, spawnLane(r, laneRnd))>>
    /\ nextCarId = 2
    /\ spawnTimer = 0
    /\ settings \in SettingsSet
    /\ lightStates \in LightInputs
    /\ now = ClockStart
    /\ tick = NoTick
    /\ probe = NoProbe

\* the forEach and the filter of CarManager.update
LiveFrame ==
    \E deltaTime \in LiveDeltaTimes :
        /\ cars' = removeCompleted(horizonCars(
                        updateCars(cars, 1, deltaTime, lightStates, settings.CAR_SPEED, now)))
        /\ tick' = [NoTick EXCEPT !.deltaTime = deltaTime, !.frame = 1 - tick.frame]
        /\ UNCHANGED <<nextCarId, spawnTimer, settings, lightStates, now, probe>>

NextLive ==
    \/ LiveFrame
    \/ SetLights

\* a frame has been run: what LiveFrame, and nothing else, does to tick
Called ==
    \E deltaTime \in LiveDeltaTimes :
        tick' = [NoTick EXCEPT !.deltaTime = deltaTime, !.frame = 1 - tick.frame]

\* the frame loop keeps calling update
SpecLive == InitLive /\ [][NextLive]_vars /\ WF_tick(Called)

-----------------------------------------------------------------------------
(* SpecQueue: the fleet of Spec at one setting (slow cars, frequent        *)
(* spawns) with one more car, so that three cars of one origin queue up.   *)

QueueSettings == [CAR_SPEED |-> 30 * Scale, CAR_SPAWN_RATE |-> 10]

InitQueue ==
    /\ cars = <<>>
    /\ nextCarId = 1
    /\ spawnTimer = 0
    /\ settings = QueueSettings
    /\ lightStates \in LightInputs
    /\ now = ClockStart
    /\ tick = NoTick
    /\ probe = NoProbe

\* CarManager.update(deltaTime, lightStates)
UpdateQueue ==
    \E deltaTime \in DeltaTimes, elapsed \in Elapsed :
        \E direction \in SpawnDirections, laneRnd \in SpawnLanes :
            \E destination \in SpawnDestinations(direction) :
                UpdatedUpTo(managerUpdate(deltaTime, lightStates, now + elapsed,
                                          direction, destination, laneRnd),
                            deltaTime, elapsed, direction, MaxCarId + 1)

NextQueue ==
    \/ UpdateQueue
    \/ SetLights

SpecQueue == InitQueue /\ [][NextQueue]_vars

-----------------------------------------------------------------------------
(* SpecReset: the fleet of Spec with frequent spawns, restarted at any     *)
(* time by reset() or initialize(settings); the lights are those of the    *)
(* run's first frame.                                                      *)

\* the manager's fields
manager == [cars |-> cars, nextCarId |-> nextCarId, spawnTimer |-> spawnTimer,
            settings |-> settings]

\* reset() restarting the counter and the timer over the live fleet
resetKeepsFleet(m) ==
    [m EXCEPT !.nextCarId = 1, !.spawnTimer = 0]

\* CarManager.reset()
reset(m) ==
    [m EXCEPT !.cars = <<>>, !.nextCarId = 1, !.spawnTimer = 0]

\* CarManager.initialize(settings)
initialize(m, s) ==
    [m EXCEPT !.settings = s, !.cars = <<>>, !.nextCarId = 1, !.spawnTimer = 0]

\* CarManager.updateSettings(settings)
updateSettings(m, s) ==
    [m EXCEPT !.settings = s]

\* the settings panel of this fleet: a spawn attempt in every frame
ResetSettingsSet == {[CAR_SPEED |-> 80 * Scale, CAR_SPAWN_RATE |-> 10],
                     [CAR_SPEED |-> 30 * Scale, CAR_SPAWN_RATE |-> 10]}

InitReset ==
    /\ cars = <<>>
    /\ nextCarId = 1
    /\ spawnTimer = 0
    /\ settings \in ResetSettingsSet
    /\ lightStates \in LightInputs
    /\ now = ClockStart
    /\ tick = NoTick
    /\ probe = NoProbe

\* the manager's fields become those of m; no frame is run
Managed(m) ==
    /\ cars' = m.cars
    /\ nextCarId' = m.nextCarId
    /\ spawnTimer' = m.spawnTimer
    /\ settings' = m.settings
    /\ UNCHANGED <<lightStates, now, tick, probe>>

UpdateReset ==
    \E deltaTime \in DeltaTimes, elapsed \in Elapsed :
        \E direction \in SpawnDirections, laneRnd \in SpawnLanes :
            \E destination \in SpawnDestinations(direction) :
                Frame(deltaTime, elapsed, direction, destination, laneRnd)

UpdateSettingsReset == \E s \in ResetSettingsSet : Managed(updateSettings(manager, s))

Reset == Managed(reset(manager))

Initialize == \E s \in ResetSettingsSet : Managed(initialize(manager, s))

NextReset ==
    \/ UpdateReset
    \/ UpdateSettingsReset
    \/ Reset
    \/ Initialize

SpecReset == InitReset /\ [][NextReset]_vars

-----------------------------------------------------------------------------
(* Reading a frame: a step is a frame iff the clock moves. Before are the  *)
(* cars that enter the update pass (the live cars, then the car spawned in *)
(* this frame as constructed), After the same cars as they leave it (the   *)
(* cars kept, then the cars handed to the completion callback).            *)

IsFrame == now' # now
Before == cars \o tick'.spawned
After == cars' \o tick'.reported

Ids(cs) == {cs[i].id : i \in 1..Len(cs)}
CarOf(cs, id) == cs[CHOOSE i \in 1..Len(cs) : cs[i].id = id]

\* every car that entered the pass leaves it exactly once
SameCars == /\ Len(After) = Len(Before)
            /\ Ids(After) = Ids(Before)
            /\ Cardinality(Ids(Before)) = Len(Before)

-----------------------------------------------------------------------------
(* Claims *)

LifecycleEdges == { <<"approaching", "waiting">>, <<"approaching", "crossing">>,
                    <<"waiting", "crossing">>, <<"crossing", "exiting">>,
                    <<"exiting", "completed">> }

\* C1: a vehicle is constructed 'approaching'; an update call leaves its state
\* unchanged or moves it along one of the five lifecycle edges, and nothing
\* but an update call changes it (so no state is re-entered and 'completed'
\* is never left).
C1_LifecycleEdges ==
    [][ /\ \A i \in 1..Len(tick'.spawned) : tick'.spawned[i].state = "approaching"
        /\ IsFrame => /\ SameCars
                      /\ \A i \in 1..Len(Before) :
                            LET b == Before[i]
                                a == CarOf(After, b.id)
                            IN  a.state = b.state \/ <<b.state, a.state>> \in LifecycleEdges
        /\ ~IsFrame => cars' = cars ]_vars

\* a vehicle that waited at a red light has been reported completed
C1_Witness ==
    \E i \in 1..Len(tick.reported) :
        tick.reported[i].state = "completed" /\ tick.reported[i].totalWaitTime > 0

\* C2: after every Car.update of a frame the car's maxSpeed is the CAR_SPEED
\* the fleet manager holds in that frame, a 'waiting' car has speed 0, an
\* 'approaching' car has speed <= maxSpeed and a 'crossing' car has
\* speed <= 1.2 * maxSpeed.
C2_SpeedCaps ==
    [][ IsFrame =>
          \A i \in 1..Len(After) :
              LET a == After[i]
              IN  /\ a.maxSpeed = settings.CAR_SPEED
                  /\ a.state = "waiting" => a.speed = 0
                  /\ a.state = "approaching" => a.speed <= a.maxSpeed
                  /\ a.state = "crossing" => 10 * a.speed <= 12 * a.maxSpeed ]_vars

\* a car that had reached 60 units/s under the cap of 80 is 'approaching' at
\* 30 units/s after the cap was lowered to 30 (third frame, 120 units down the road)
C2_Witness ==
    /\ now = ClockStart + 3 * MinElapsed
    /\ settings.CAR_SPEED = 30 * Scale
    /\ \E i \in 1..Len(cars) :
          /\ cars[i].state = "approaching"
          /\ cars[i].speed = 30 * Scale
          /\ cars[i].y = 120 * Scale

\* C3: in every frame a 'waiting' car stays 'waiting' if the light of its
\* origin direction is RED and becomes 'crossing' if it is GREEN or YELLOW,
\* whatever the other three lights show.
C3_WaitingFollowsOwnLight ==
    [][ IsFrame =>
          \A i \in 1..Len(Before) :
              LET b == Before[i]
                  a == CarOf(After, b.id)
              IN  b.state = "waiting" =>
                     /\ lightStates[b.fromDirection] \in LIGHT_STATES
                     /\ a.state = IF lightStates[b.fromDirection] = RED
                                  THEN "waiting" ELSE "crossing" ]_vars

\* a car from the East has sat through a red frame while North-South was
\* green, and was released when its own light changed
C3_Witness ==
    \E i \in 1..Len(cars) :
        /\ cars[i].fromDirection = E
        /\ cars[i].state = "crossing"
        /\ cars[i].totalWaitTime >= 2 * MinElapsed
        /\ cars[i].speed = 0

\* C4 as claimed: for every vehicle that goes from 'waiting' to 'crossing',
\* the recorded wait time equals the clock time elapsed since it entered
\* 'waiting' and the wait-start timestamp is cleared, however it entered 'waiting'.
C4_WaitTimeEveryEntry ==
    [][ IsFrame =>
          \A i \in 1..Len(Before) :
              LET b == Before[i]
                  a == CarOf(After, b.id)
              IN  (b.state = "waiting" /\ a.state = "crossing") =>
                     /\ a.totalWaitTime = now' - b.hWaitEntered
                     /\ a.waitStartTime = NullTime ]_vars

\* C4 (amended): for every vehicle that goes from 'waiting' to 'crossing' the
\* wait-start timestamp is cleared; if the vehicle entered 'waiting' at a red
\* light with no vehicle close ahead (the entry that records the timestamp),
\* the recorded wait time equals the clock time elapsed since it entered
\* 'waiting'; if it entered 'waiting' behind a close vehicle, no timestamp was
\* recorded and the recorded wait time stays 0.
C4_WaitTimeRedLightEntry ==
    [][ IsFrame =>
          \A i \in 1..Len(Before) :
              LET b == Before[i]
                  a == CarOf(After, b.id)
              IN  (b.state = "waiting" /\ a.state = "crossing") =>
                     /\ a.waitStartTime = NullTime
                     /\ b.hWaitEntered # NullTime
                     /\ b.waitStartTime # NullTime =>
                            /\ b.waitStartTime = b.hWaitEntered
                            /\ a.totalWaitTime = now' - b.hWaitEntered
                     /\ b.waitStartTime = NullTime => a.totalWaitTime = 0 ]_vars

\* a car released after two red frames holds two frames' clock time as its
\* wait, while the car that had queued behind another holds 0
C4_Witness ==
    /\ \E i \in 1..Len(cars) :
          /\ cars[i].state = "crossing"
          /\ cars[i].waitStartTime = NullTime
          /\ cars[i].hWaitEntered # NullTime
          /\ cars[i].totalWaitTime = now - cars[i].hWaitEntered
          /\ cars[i].totalWaitTime >= 2 * MinElapsed
    /\ \E j \in 1..Len(cars) :
          /\ cars[j].state = "crossing"
          /\ cars[j].hWaitEntered # NullTime
          /\ cars[j].totalWaitTime = 0

SqDist(p, q) == (p.x - q.x) * (p.x - q.x) + (p.y - q.y) * (p.y - q.y)

\* C5: when spawnCar adds a vehicle, every vehicle that is live at that
\* moment and has the same origin direction is at Euclidean distance >= 60
\* from the new vehicle's position; the new vehicle is the only one added.
C5_SpawnSpacing ==
    [][ IsFrame =>
          /\ Len(tick'.spawned) <= 1
          /\ \A k \in 1..Len(tick'.spawned) :
                LET s == tick'.spawned[k]
                IN  /\ s.id \notin Ids(cars)
                    /\ \A i \in 1..Len(cars) :
                          cars[i].fromDirection = s.fromDirection =>
                              SqDist(cars[i], s) >= (60 * Scale) * (60 * Scale) ]_vars

\* a vehicle was spawned while the previous vehicle of the same origin was
\* on the approach road exactly 60 units from the spawn point (it has since
\* advanced by 60 units at 60 units/s)
C5_Witness ==
    /\ tick.spawned # <<>>
    /\ \E i \in 1..Len(cars) :
          /\ cars[i].id # tick.spawned[1].id
          /\ cars[i].fromDirection = tick.spawned[1].fromDirection
          /\ cars[i].state = "approaching"
          /\ cars[i].speed = 60 * Scale
          /\ SqDist(cars[i], tick.spawned[1]) = (120 * Scale) * (120 * Scale)

\* C6: in the frame in which a vehicle becomes 'completed' it is handed to
\* the completion callback exactly once and is not in the fleet when update
\* returns; every other vehicle stays in the fleet and is not reported. So
\* no live vehicle is 'completed', and as ids are never reused a reported
\* vehicle is never updated or reported again.
C6_CompletedOnceAndRemoved ==
    [][ IsFrame =>
          /\ SameCars
          /\ \A i \in 1..Len(cars) : cars[i].state # "completed" /\ cars[i].id < nextCarId
          /\ \A i \in 1..Len(cars') : cars'[i].state # "completed" /\ cars'[i].id < nextCarId'
          /\ \A i \in 1..Len(tick'.spawned) : tick'.spawned[i].id = nextCarId
          /\ nextCarId' = nextCarId + Len(tick'.spawned)
          /\ Cardinality(Ids(tick'.reported)) = Len(tick'.reported)
          /\ Ids(tick'.reported) \cap Ids(cars') = {}
          /\ Ids(tick'.reported) \cup Ids(cars') = Ids(Before)
          /\ \A i \in 1..Len(tick'.reported) : tick'.reported[i].state = "completed" ]_vars

\* a vehicle was reported completed in a frame that left another vehicle live
C6_Witness ==
    /\ tick.reported # <<>>
    /\ tick.reported[1].state = "completed"
    /\ cars # <<>>
    /\ \A i \in 1..Len(cars) : cars[i].id # tick.reported[1].id

\* the path a car follows in the motion step of the update that takes it
\* from b to a: the path bound before the update, or the one bound during it
PathAtMotion(b, a) ==
    IF b.path # NoPath THEN b.path
    ELSE IF ~b.hasAssignedPath /\ a.hasAssignedPath
         THEN [from |-> a.route.from, to |-> a.route.to, lane |-> a.lane]
         ELSE NoPath

\* the distance along the path before the motion step, progress * total
ProgressAtMotion(b, a) ==
    IF b.path # NoPath
    THEN (PathProfiles[b.path].total * b.pathProgress.num) \div b.pathProgress.den
    ELSE 0

Advance(a) == (a.speed * tick'.deltaTime) \div 1000

\* C7: after every Car.update with deltaTime > 0 the car's pathProgress lies
\* in [0,1]; while the path stays bound it does not decrease from one frame
\* to the next, and it equals the distance advanced along the path since the
\* path was bound divided by the path's total length.
C7_PathProgress ==
    [][ (IsFrame /\ tick'.deltaTime > 0) =>
          \A i \in 1..Len(Before) :
              LET b == Before[i]
                  a == CarOf(After, b.id)
              IN  /\ a.pathProgress.den > 0
                  /\ 0 <= a.pathProgress.num
                  /\ a.pathProgress.num <= a.pathProgress.den
                  /\ (b.path # NoPath /\ a.path # NoPath) =>
                        /\ a.path = b.path
                        /\ b.pathProgress.num * a.pathProgress.den
                              <= a.pathProgress.num * b.pathProgress.den
                  /\ a.path # NoPath =>
                        a.pathProgress.num * PathProfiles[a.path].total
                           = a.hTravelled * a.pathProgress.den ]_vars

\* a car is part-way along a left-turn path, after more than one frame on it
C7_Witness ==
    \E i \in 1..Len(cars) :
        /\ cars[i].turnType = LEFT
        /\ cars[i].path # NoPath
        /\ cars[i].pathProgress.num > 0
        /\ cars[i].hTravelled > 100 * Scale
        /\ cars[i].pathProgress.num < cars[i].pathProgress.den

\* C8: in the frame in which progress * total + speed * dt reaches the total
\* length of the bound path, the car is put exactly on the path's last
\* point, its heading becomes the direction of the path's last segment and
\* the path is unbound (and in no earlier frame); once the path is unbound
\* it is never bound again and the car moves in a straight line along its heading.
C8_PathEnd ==
    [][ IsFrame =>
          \A i \in 1..Len(Before) :
              LET b == Before[i]
                  a == CarOf(After, b.id)
                  p == PathAtMotion(b, a)
              IN  /\ p # NoPath =>
                        LET prof == PathProfiles[p]
                            n == Len(prof.path)
                            last == prof.path[n]
                            prev == prof.path[n - 1]
                        IN  IF ProgressAtMotion(b, a) + Advance(a) >= prof.total
                            THEN /\ a.x = last.x
                                 /\ a.y = last.y
                                 /\ a.angle = Atan2(last.y - prev.y, last.x - prev.x)
                                 /\ a.path = NoPath
                            ELSE a.path = p
                  /\ (b.path = NoPath /\ b.hasAssignedPath) =>
                        /\ a.path = NoPath
                        /\ a.angle = b.angle
                        /\ a.x = b.x + (b.angle.dx * Advance(a)) \div Unit
                        /\ a.y = b.y + (b.angle.dy * Advance(a)) \div Unit ]_vars

\* a car that turned from North to East has left its path and, after a
\* frame of straight-line motion, is beyond the path's last point
C8_Witness ==
    \E i \in 1..Len(cars) :
        LET c == cars[i]
            prof == PathProfiles[[from |-> N, to |-> E, lane |-> 1]]
            last == prof.path[Len(prof.path)]
        IN  /\ c.route = [from |-> N, to |-> E]
            /\ c.hasAssignedPath
            /\ c.path = NoPath
            /\ c.state = "exiting"
            /\ <<c.x, c.y>> # <<last.x, last.y>>

RightPairs == {<<N, E>>, <<E, S>>, <<S, W>>, <<W, N>>}
LeftPairs == {<<N, W>>, <<W, S>>, <<S, E>>, <<E, N>>}
StraightPairs == {<<N, S>>, <<S, N>>, <<E, W>>, <<W, E>>}

\* C9: for each of the 16 ordered pairs of directions getTurnType returns
\* RIGHT exactly for N->E, E->S, S->W, W->N, LEFT exactly for N->W, W->S,
\* S->E, E->N, STRAIGHT exactly for the four opposite pairs and NONE (null)
\* exactly for the four pairs with from = to.
C9_TurnTable ==
    probe.op = "getTurnType" =>
        LET pair == <<probe.from, probe.to>>
        IN  /\ probe.result \in {RIGHT, LEFT, STRAIGHT, NONE}
            /\ probe.result = RIGHT <=> pair \in RightPairs
            /\ probe.result = LEFT <=> pair \in LeftPairs
            /\ probe.result = STRAIGHT <=> pair \in StraightPairs
            /\ probe.result = NONE <=> probe.from = probe.to

\* getTurnType has classified West -> South as a left turn
C9_Witness ==
    /\ probe.op = "getTurnType"
    /\ probe.from = W
    /\ probe.to = S
    /\ probe.result = LEFT

\* C10: for each of the 12 routes with from # to, the last point of
\* buildPath(from, to, lane) is exitPoint(to, exitLane) with exitLane 1 for a
\* right turn, 0 for a left turn and the given lane for a straight route;
\* for a straight route the path runs from entryPoint(from, lane) to
\* exitPoint(to, lane) with every point on the segment between the two, in order.
C10_PathEndsAtExitPoint ==
    (probe.op = "buildPath" /\ probe.from # probe.to) =>
        LET path == probe.result
            n == Len(path)
            pair == <<probe.from, probe.to>>
            exitLane == IF pair \in RightPairs THEN 1
                        ELSE IF pair \in LeftPairs THEN 0
                        ELSE probe.lane
            a == entryPoint(probe.from, probe.lane)
            b == exitPoint(probe.to, probe.lane)
        IN  /\ n >= 2
            /\ path[n] = exitPoint(probe.to, exitLane)
            /\ pair \in StraightPairs =>
                  /\ n = DEFAULT_STEPS + 1
                  /\ path[1] = a
                  /\ path[n] = b
                  /\ \A k \in 1..n :
                        \* on the line through a and b, at the fraction (k-1)/(n-1)
                        /\ (path[k].x - a.x) * (b.y - a.y) = (path[k].y - a.y) * (b.x - a.x)
                        /\ Abs((n - 1) * (path[k].x - a.x) - (k - 1) * (b.x - a.x)) < n
                        /\ Abs((n - 1) * (path[k].y - a.y) - (k - 1) * (b.y - a.y)) < n

\* the right turn from North, asked for from lane 0, ends at exitPoint(E, 1),
\* beyond the end of its arc
C10_Witness ==
    /\ probe.op = "buildPath"
    /\ probe.from = N
    /\ probe.to = E
    /\ probe.lane = 0
    /\ Len(probe.result) > DEFAULT_STEPS + 1
    /\ probe.result[Len(probe.result)] = exitPoint(E, 1)
    /\ probe.result[DEFAULT_STEPS + 1] # exitPoint(E, 1)

\* the length of the segment from p to q, rounded down to the fixed-point grid
SegLen(p, q) ==
    CHOOSE d \in 0..(CANVAS_WIDTH * Scale) :
        /\ d * d <= SqDist(p, q)
        /\ SqDist(p, q) < (d + 1) * (d + 1)

RECURSIVE SegLenSum(_, _)
\* the sum of the lengths of the first k - 1 segments of the path
SegLenSum(path, k) ==
    IF k <= 1 THEN 0 ELSE SegLenSum(path, k - 1) + SegLen(path[k - 1], path[k])

\* C11: for every built path (29 points or more) withCumulativeLengths
\* returns the path unchanged and a table lens as long as the path with
\* lens[0] = 0, lens non-decreasing, lens[i] - lens[i-1] the length of
\* segment i, and lens[last] = total = the sum of the segment lengths.
C11_CumulativeLengths ==
    probe.op = "withCumulativeLengths" =>
        LET prof == probe.result
            path == buildPath(probe.from, probe.to, probe.lane)
            n == Len(path)
        IN  /\ n >= 2
            /\ prof.path = path
            /\ Len(prof.lens) = n
            /\ prof.lens[1] = 0
            /\ \A i \in 1..(n - 1) :
                  /\ prof.lens[i] <= prof.lens[i + 1]
                  /\ prof.lens[i + 1] - prof.lens[i] = SegLen(path[i], path[i + 1])
            /\ prof.lens[n] = prof.total
            /\ prof.total = SegLenSum(path, n)

\* the profile of the left turn from North: arc and snap tail, of positive
\* length, the table growing over the last segment
C11_Witness ==
    /\ probe.op = "withCumulativeLengths"
    /\ probe.from = N
    /\ probe.to = W
    /\ Len(probe.result.lens) > DEFAULT_STEPS + 1
    /\ probe.result.total > 100 * Scale
    /\ probe.result.lens[Len(probe.result.lens) - 1] < probe.result.total

\* C12: a route with from = to is rejected wherever a path is required:
\* getTurnType returns NONE (null) for it, and buildPath(d, d, lane) returns
\* no path (it fails instead of handing back a sequence of points).
C12_SameRouteRejected ==
    /\ (probe.op = "getTurnType" /\ probe.from = probe.to) => probe.result = NONE
    /\ (probe.op = "buildPath" /\ probe.from = probe.to) => Len(probe.result) = 0

\* C13: every vehicle spawnCar creates has route.from # route.to and a
\* turnType equal to getTurnType(route.from, route.to), one of LEFT, RIGHT,
\* STRAIGHT; no update changes its route or its turnType, so both hold at
\* every tick of its life.
C13_RouteAndTurnTypeFixed ==
    [][ IsFrame =>
          /\ \A k \in 1..Len(tick'.spawned) :
                LET s == tick'.spawned[k]
                IN  /\ s.route.from # s.route.to
                    /\ s.turnType = getTurnType(s.route.from, s.route.to)
          /\ \A i \in 1..Len(Before) :
                LET b == Before[i]
                    a == CarOf(After, b.id)
                IN  /\ a.route = b.route
                    /\ a.turnType = b.turnType
                    /\ a.route.from # a.route.to
                    /\ a.turnType = getTurnType(a.route.from, a.route.to)
                    /\ a.turnType \in {LEFT, RIGHT, STRAIGHT} ]_vars

\* a vehicle spawned for the route East -> North has run its whole life and
\* is reported completed as the left turn it was spawned as
C13_Witness ==
    /\ tick.reported # <<>>
    /\ tick.reported[1].state = "completed"
    /\ tick.reported[1].route = [from |-> E, to |-> N]
    /\ tick.reported[1].turnType = LEFT

\* C14: a vehicle spawned by the fleet manager has lane 0 if its turn type
\* is LEFT, lane 1 if RIGHT and lane 0 or 1 if STRAIGHT, and no update
\* changes its lane: at every tick its lane is its spawn lane.
C14_LaneFixedAtSpawn ==
    [][ IsFrame =>
          /\ \A k \in 1..Len(tick'.spawned) :
                LET s == tick'.spawned[k]
                IN  /\ s.turnType = LEFT => s.lane = 0
                    /\ s.turnType = RIGHT => s.lane = 1
                    /\ s.lane \in {0, 1}
          /\ \A i \in 1..Len(Before) :
                Before[i].lane = CarOf(After, Before[i].id).lane ]_vars

\* a straight-through vehicle spawned in lane 0 has left the intersection in
\* lane 0, after the lane tactics of both the approach and the exit
C14_Witness ==
    \E i \in 1..Len(cars) :
        /\ cars[i].turnType = STRAIGHT
        /\ cars[i].lane = 0
        /\ cars[i].state = "exiting"
        /\ cars[i].hasAssignedPath

\* the spawn attempt of this frame finds a live vehicle of the drawn origin
\* less than 60 units from that origin's spawn point
SpawnBlocked ==
    /\ tick'.attempted
    /\ \E i \in 1..Len(cars) :
          /\ cars[i].fromDirection = tick'.direction
          /\ SqDist(cars[i], spawnPoints(tick'.direction)) < (60 * Scale) * (60 * Scale)

\* C15: a spawn attempt made while a live vehicle of the drawn origin is
\* less than 60 units from that origin's spawn point creates no vehicle and
\* leaves the vehicles of the fleet and the next id as they were; the timer
\* restarts from 0, and an attempt is made again in every frame in which the
\* timer reaches the spawn interval.
C15_BlockedSpawnSkipped ==
    [][ IsFrame =>
          /\ SpawnBlocked =>
                /\ tick'.spawned = <<>>
                /\ nextCarId' = nextCarId
                /\ Ids(After) = Ids(cars)
                /\ Len(After) = Len(cars)
                /\ spawnTimer' = 0
          /\ tick'.attempted <=>
                (spawnTimer + tick'.deltaTime) * settings.CAR_SPAWN_RATE >= 10000 ]_vars

\* a spawn attempt was turned down while the only vehicle of the fleet was
\* still near the spawn point; a second frame later the attempt came again
C15_Witness ==
    /\ tick.attempted
    /\ tick.spawned = <<>>
    /\ tick.direction = N
    /\ nextCarId = 2
    /\ Len(cars) = 1
    /\ cars[1].fromDirection = N
    /\ now >= ClockStart + 2 * MinElapsed

\* the car has not gone back along the heading it had when the update began
NotMovedBack(b, a) == (a.x - b.x) * b.angle.dx + (a.y - b.y) * b.angle.dy >= 0

\* a.pathProgress >= b.pathProgress, as fractions of positive denominators
ProgressKept(b, a) == a.pathProgress.num * b.pathProgress.den >= b.pathProgress.num * a.pathProgress.den

\* C16: an update call with deltaTime <= 0 is clamped or rejected: it does not
\* decrease the spawn timer, and it leaves no car with a lower speed, a lower
\* pathProgress on the path it was following, or a position behind the one
\* it had along its heading.
C16_NonPositiveDeltaClamped ==
    [][ IsFrame /\ tick'.deltaTime <= 0 =>
          /\ spawnTimer' >= spawnTimer
          /\ \A i \in 1..Len(cars) :
                LET b == cars[i]
                    a == CarOf(After, b.id)
                IN  /\ a.speed >= b.speed
                    /\ NotMovedBack(b, a)
                    /\ (b.path # NoPath /\ a.path # NoPath) => ProgressKept(b, a) ]_vars

\* the live list as the update of the i-th car of the pass finds it: the cars
\* before it already updated, the car itself with its new maxSpeed, the cars
\* behind it as they entered the pass
PassView(i) ==
    [j \in 1..Len(Before) |->
        IF j < i THEN CarOf(After, Before[j].id)
        ELSE IF j = i THEN [Before[j] EXCEPT !.maxSpeed = settings.CAR_SPEED]
        ELSE Before[j]]

\* C17: one update call spawns, then updates every live car in spawn order,
\* then retires: the cars that enter the pass are the cars that leave it, each
\* updated once against the cars before it already updated and the frame's
\* one lightStates; a car spawned in the frame is updated in it (it has the
\* manager's speed and has moved); a car is retired after the pass, in the
\* frame that completed it.
C17_UpdateOrder ==
    [][ IsFrame =>
          /\ lightStates' = lightStates
          /\ SameCars
          /\ \A i, j \in 1..Len(Before) : i < j => Before[i].id < Before[j].id
          /\ \A i \in 1..Len(Before) :
                CarOf(After, Before[i].id)
                    = CarUpdate(PassView(i)[i], tick'.deltaTime, lightStates, PassView(i), now')
          /\ \A i \in 1..Len(tick'.spawned) :
                LET s == tick'.spawned[i]
                    a == CarOf(After, s.id)
                IN  /\ a.maxSpeed = settings.CAR_SPEED
                    /\ a.speed > 0
                    /\ a.x # s.x \/ a.y # s.y
          /\ \A i \in 1..Len(cars') : ~isCompleted(cars'[i])
          /\ \A i \in 1..Len(tick'.reported) : isCompleted(tick'.reported[i])
          /\ \A i, j \in 1..Len(cars') : i < j => cars'[i].id < cars'[j].id ]_vars

\* a frame spawned car 2 behind a live car 1 and updated both
C17_Witness ==
    /\ tick.spawned # <<>>
    /\ Len(cars) = 2
    /\ cars[2].id = tick.spawned[1].id
    /\ cars[2].speed > 0
    /\ cars[1].state # "approaching"
    /\ settings.CAR_SPEED # DEFAULT_CAR_SPEED * Scale
    /\ cars[2].maxSpeed = settings.CAR_SPEED

\* C18: an update call makes a spawn attempt exactly when the spawn timer plus
\* deltaTime has reached 10000 / CAR_SPAWN_RATE, and only one however many
\* intervals deltaTime spans; the attempt resets the timer to 0 whether or
\* not it created a car, otherwise the timer keeps the sum; the fleet and the
\* id counter grow by at most one, and the timer ends below the interval.
C18_OneSpawnAttempt ==
    [][ IsFrame =>
          /\ tick'.attempted <=> spawnDue(spawnTimer + tick'.deltaTime, settings.CAR_SPAWN_RATE)
          /\ tick'.attempted => spawnTimer' = 0
          /\ ~tick'.attempted => spawnTimer' = spawnTimer + tick'.deltaTime /\ tick'.spawned = <<>>
          /\ Len(tick'.spawned) <= 1
          /\ Len(Before) = Len(cars) + Len(tick'.spawned)
          /\ Len(cars') <= Len(cars) + 1
          /\ nextCarId' = nextCarId + Len(tick'.spawned)
          /\ ~spawnDue(spawnTimer', settings.CAR_SPAWN_RATE) ]_vars

\* a frame of two spawn intervals made one attempt and added car 2 to car 1
C18_Witness ==
    /\ tick.attempted
    /\ tick.deltaTime * settings.CAR_SPAWN_RATE >= 2 * 10000
    /\ Len(tick.spawned) = 1
    /\ Len(cars) = 2
    /\ nextCarId = 3
    /\ spawnTimer = 0

\* some car of the list, of the origin of b, is ahead of b by less than 35
CloseAhead(b, view) ==
    \E j \in 1..Len(view) :
        /\ view[j].id # b.id
        /\ view[j].fromDirection = b.fromDirection
        /\ AheadDistance(b, view[j]) > 0
        /\ AheadDistance(b, view[j]) < 35 * Scale

\* b is within 30 of its stop line and the light of its origin is RED
AtRedLight(b) ==
    /\ getDistanceToStopLine(b, stopLines(b.fromDirection)) <= 30 * Scale
    /\ lightStates[b.fromDirection] = RED

\* C19: an update switches an 'approaching' car to 'waiting' iff a car of its
\* origin is ahead of it by less than 35 (whatever the light) or it is within
\* 30 of its stop line at RED; the car then has speed 0 and the position it
\* had, and its waitStartTime is the clock of the frame if no car was that
\* close ahead and is left as it was otherwise.
C19_ApproachingToWaiting ==
    [][ IsFrame =>
          \A i \in 1..Len(Before) :
              LET b == Before[i]
                  a == CarOf(After, b.id)
                  close == CloseAhead(b, PassView(i))
              IN  b.state = "approaching" =>
                    /\ a.state = "waiting" <=> (close \/ AtRedLight(b))
                    /\ a.state = "waiting" =>
                          /\ a.speed = 0
                          /\ a.x = b.x /\ a.y = b.y
                          /\ a.waitStartTime = IF close THEN b.waitStartTime ELSE now' ]_vars

\* car 2 has just stopped behind car 1 at a green light, with no timestamp
C19_Witness ==
    /\ Len(cars) = 2
    /\ cars[2].state = "waiting"
    /\ cars[2].hWaitEntered = now
    /\ cars[2].waitStartTime = NullTime
    /\ cars[2].speed = 0
    /\ lightStates[cars[2].fromDirection] = GREEN
    /\ now > ClockStart

\* the path of the route of b in the lane a is in
RoutePath(b, a) == [from |-> b.route.from, to |-> b.route.to, lane |-> a.lane]

\* C20: the update that takes a car from 'approaching' to 'crossing' binds the
\* path of (route.from, route.to, lane) at progress 0, so that the car leaves
\* the update advanced by that update's step from the start of the path (or
\* with the path already completed, if the step covers it); no other update
\* binds a path: a bound path stays or is unbound, and a car whose path was
\* unbound keeps no path.
C20_PathBoundOnce ==
    [][ IsFrame =>
          \A i \in 1..Len(Before) :
              LET b == Before[i]
                  a == CarOf(After, b.id)
                  total == PathProfiles[RoutePath(b, a)].total
              IN  IF b.state = "approaching" /\ a.state = "crossing"
                  THEN /\ ~b.hasAssignedPath /\ b.path = NoPath
                       /\ a.hasAssignedPath
                       /\ a.hTravelled = Advance(a)
                       /\ IF Advance(a) >= total
                          THEN a.path = NoPath
                          ELSE /\ a.path = RoutePath(b, a)
                               /\ a.pathProgress = [num |-> Advance(a), den |-> total]
                  ELSE /\ a.hasAssignedPath = b.hasAssignedPath
                       /\ a.path \in {b.path, NoPath}
                       /\ b.path # NoPath => b.hasAssignedPath ]_vars

\* a car that turned left on its path has left the canvas: the path was bound,
\* completed and unbound, and the car went on without one
C20_Witness ==
    \E i \in 1..Len(cars) :
        /\ cars[i].state = "completed"
        /\ cars[i].turnType = LEFT
        /\ cars[i].hasAssignedPath
        /\ cars[i].path = NoPath

\* C21: a car that is 'exiting' (or beyond) has been left by some update in
\* 'crossing' at a point inside the intersection footprint.
C21_ExitingWasInside ==
    \A i \in 1..Len(cars) :
        cars[i].state \in {"exiting", "completed"} => cars[i].hInsideCrossing

\* update is called again and again with the light of d GREEN or YELLOW
CalledWhileOpen(d) == Called /\ lightStates[d] \in {GREEN, YELLOW}

LightsKeepOpening == \A d \in Dirs : []<><<CalledWhileOpen(d)>>_tick

\* C22: if update keeps being called with a positive deltaTime and a positive
\* maxSpeed, and again and again with the light of each origin GREEN or
\* YELLOW, the car eventually is completed and removed from the fleet.
C22_EveryCarCompletes == LightsKeepOpening => <>(cars = <<>>)

\* the cars of the list, by index, that share the origin of b and lie
\* strictly ahead of it on that origin's axis
CarsAhead(b, view) ==
    {j \in 1..Len(view) : /\ view[j].id # b.id
                          /\ view[j].fromDirection = b.fromDirection
                          /\ AheadDistance(b, view[j]) > 0}

\* C23: in every frame and for every car of the pass, checkForCarAhead on
\* the live list as the car's update finds it (cars spawned earlier already
\* updated in this frame, cars spawned later as the last frame left them)
\* returns none iff no car of its origin is strictly ahead, and otherwise
\* such a car at the smallest distance; the car leaves the frame as the
\* update against that list leaves it.
C23_ClosestCarAhead ==
    [][ IsFrame =>
          \A i \in 1..Len(Before) :
              LET view == PassView(i)
                  b == view[i]
                  k == checkForCarAhead(b, view)
              IN  /\ k = 0 <=> CarsAhead(b, view) = {}
                  /\ k # 0 => /\ k \in CarsAhead(b, view)
                              /\ \A j \in CarsAhead(b, view) :
                                    AheadDistance(b, view[k]) <= AheadDistance(b, view[j])
                  /\ \A j \in 1..Len(view) : view[j].id < b.id => view[j] = CarOf(After, view[j].id)
                  /\ \A j \in 1..Len(view) : view[j].id > b.id => view[j] = Before[j]
                  /\ CarOf(After, b.id) = CarUpdate(b, tick'.deltaTime, lightStates, view, now') ]_vars

\* car 3 has just stopped behind car 2, the nearer of the two cars ahead of it
C23_Witness ==
    /\ Len(cars) = 3
    /\ cars[3].state = "waiting"
    /\ cars[3].hWaitEntered = now
    /\ cars[3].waitStartTime = NullTime
    /\ CarsAhead(cars[3], cars) = {1, 2}
    /\ AheadDistance(cars[3], cars[2]) < 35 * Scale
    /\ AheadDistance(cars[3], cars[1]) >= 35 * Scale

\* p is inside or on the boundary of the intersection square
InSquare(p) ==
    /\ Abs(p.x - CX * Scale) <= HALF_INTER * Scale
    /\ Abs(p.y - CY * Scale) <= HALF_INTER * Scale

\* C24: for each of the eight turns the arc of buildPath, its first
\* DEFAULT_STEPS + 1 points, ends inside or on the intersection square at
\* exitPoint(to, exitLane) (exitLane 1 for a right turn, 0 for a left turn),
\* at most one unit off, so that the exit snap adds a short correction or none.
C24_ArcEndsAtExit ==
    (probe.op = "buildPath" /\ <<probe.from, probe.to>> \in RightPairs \cup LeftPairs) =>
        LET arcEnd == probe.result[DEFAULT_STEPS + 1]
            exitLane == IF <<probe.from, probe.to>> \in RightPairs THEN 1 ELSE 0
        IN  /\ InSquare(arcEnd)
            /\ SqDist(arcEnd, exitPoint(probe.to, exitLane)) <= Scale * Scale

\* c is beyond the canvas margin on the side of direction d
BeyondEdge(c, d) ==
    CASE d = N -> c.y < (0 - 50) * Scale
      [] d = E -> c.x > (CANVAS_WIDTH + 50) * Scale
      [] d = S -> c.y > (CANVAS_HEIGHT + 50) * Scale
      [] d = W -> c.x < (0 - 50) * Scale

\* C25: a car that has finished its bound path, on any of the 12 routes,
\* drives on with the heading getTargetExitAngle gives for its destination
\* (North up, East right, South down, West left), and once it is
\* 'completed' it is beyond the canvas edge of its destination.
C25_HeadingTowardDestination ==
    \A i \in 1..Len(cars) :
        LET c == cars[i]
        IN  (c.hasAssignedPath /\ c.path = NoPath) =>
                /\ c.angle = getTargetExitAngle(c)
                /\ c.state = "completed" => BeyondEdge(c, c.toDirection)

\* the lanes spawnCar can assign to a route
AssignedLanes(from, to) ==
    {spawnLane([from |-> from, to |-> to], laneRnd) : laneRnd \in {0, 1}}

\* C26: for each of the 12 routes and a lane spawnCar assigns to it (0 for
\* a left turn, 1 for a right turn, 0 or 1 for straight) the first point of
\* the path buildPath returns is exactly entryPoint(from, lane).
C26_PathStartsAtEntryPoint ==
    ( /\ probe.op = "buildPath"
      /\ probe.from # probe.to
      /\ probe.lane \in AssignedLanes(probe.from, probe.to) ) =>
        probe.result[1] = entryPoint(probe.from, probe.lane)

\* the ids of the fleet cs are distinct, increase in fleet order and are below id
IdsInOrder(cs, id) ==
    /\ \A i, j \in 1..Len(cs) : i # j => cs[i].id # cs[j].id
    /\ \A i, j \in 1..Len(cs) : i < j => cs[i].id < cs[j].id
    /\ \A i \in 1..Len(cs) : cs[i].id < id

\* C27: after any sequence of update, updateSettings, reset and initialize
\* calls the ids of the live cars are pairwise distinct, strictly increasing
\* in fleet order and all smaller than nextCarId; an update whose spawn
\* attempt is refused leaves nextCarId as it was.
C27_IdsDistinctIncreasing ==
    [][ /\ IdsInOrder(cars', nextCarId')
        /\ (IsFrame /\ tick'.attempted /\ tick'.spawned = <<>>) => nextCarId' = nextCarId ]_vars

\* after a restart: the last update gave id 1 to a new car, the only live
\* car, in a frame later than the first; with a spawn attempt in every frame
\* the first frame is the only one that gives id 1 unless the counter restarts
C27_Witness ==
    /\ now > ClockStart + MinElapsed
    /\ tick.spawned # <<>>
    /\ tick.spawned[1].id = 1
    /\ Len(cars) = 1
    /\ cars[1].id = 1
    /\ nextCarId = 2
====
